---- MODULE Spec2Model ----
(***************************************************************************)
(* The template clause editor of src/views/TemplateBuilder.tsx: the draft  *)
(* (an ordered list of clauses), the undo/redo stacks, the template        *)
(* library and the handlers the editor's buttons and inputs call.          *)
(*                                                                         *)
(* Text is a TLA+ string; value.slice(a, b) is SubSeq(value, a + 1, b).    *)
(* The bullet character U+2022 (one UTF-16 unit) is written "@".           *)
(***************************************************************************)
EXTENDS Integers, Sequences, FiniteSets, TLC

(***************************************************************************)
(* Bounds of the model.                                                    *)
(***************************************************************************)
\* how many handlers run in one behaviour, not counting those that the state
\* bounds by itself: undo and redo (by the stacks) and the settling of a fetch
MaxSteps == 2

Null == "null"

(***************************************************************************)
(* Data of the program.                                                    *)
(***************************************************************************)
\* DraftSection
Clause(id, title, required, content) ==
  [id |-> id, title |-> title, required |-> required, content |-> content]

COMMON_SECTIONS ==
  << Clause("confidentiality", "Confidentiality", TRUE,
       "Both parties agree to keep all proprietary information confidential and to use it solely for the purposes of this Agreement."),
     Clause("termination", "Termination", TRUE,
       "Either party may terminate this Agreement upon 30 days written notice in the event of a material breach not cured within 15 days."),
     Clause("indemnification", "Indemnification", FALSE,
       "Each party shall defend, indemnify, and hold the other harmless from third-party claims arising from its negligence or willful misconduct."),
     Clause("governing-law", "Governing Law", TRUE,
       "This Agreement shall be governed by and construed in accordance with the laws of the State of Delaware."),
     Clause("payment-terms", "Payment Terms", TRUE,
       "Invoices are due within thirty (30) days of receipt. Late payments accrue interest at 1.5% per month or the maximum rate permitted by law.") >>

\* the rows of public.templates that fetchTemplates returns, newest first;
\* clause ids are unique within a template
PersistedTemplates ==
  << [id |-> "t1", branch_office_id |-> Null, name |-> "NDA", description |-> "",
      visibility |-> "organization",
      sections |-> << Clause("s1", "Scope", TRUE, "x"),
                      Clause("s2", "Term", FALSE, "") >>],
     [id |-> "t2", branch_office_id |-> Null, name |-> "MSA", description |-> "",
      visibility |-> "organization",
      sections |-> << Clause("s3", "Fees", TRUE, "") >>] >>

\* what the user may type into a clause's title input or text area
TitleInputs == {"Notices"}
ContentInputs == {"y"}

\* what the user may type into the template's name and description inputs
NameInputs == {" "}
DescriptionInputs == {"Draft"}

\* what useAuth() may hand the editor: memberRole and branchOfficeId
AuthContexts == {<< "org_admin", Null >>, << "branch_admin", Null >>, << "member", Null >>}

\* crypto.randomUUID(): the n-th value handed out; never repeats
RandomUUID(n) == "uuid-" \o ToString(n)

VARIABLES
  memberRole,        \* useAuth().memberRole
  branchOfficeId,    \* useAuth().branchOfficeId
  templates,         \* useState<Template[]>
  loading,           \* useState(true)
  error,             \* useState<string | null>
  saving,            \* useState(false)
  success,           \* useState<string | null>
  templateMeta,      \* useState({name, description, visibility})
  db,                \* the rows of public.templates, latest updated_at first
  saveCall,          \* the saveTemplate call in flight, with what handleSave closed over
  activeTemplateId,  \* useState<string | null>
  draft,             \* useState<DraftSection[]>
  activeClauseId,    \* useState<string | null>
  previewMode,       \* useState(false)
  undoStack,         \* useState<DraftSection[][]>, oldest first
  redoStack,         \* useState<DraftSection[][]>, nearest first
  nextId,            \* how many ids crypto.randomUUID() has handed out
  lastOp,            \* history: the handler that ran last
  usedIds,           \* history: every clause id a draft has held
  rt,                \* history: progress of an edit / undo / redo / undo run
  steps,             \* history: how many handlers have run
  call               \* a call of one of the pure functions, in the function specifications

vars == << memberRole, branchOfficeId, templates, loading, error,
           saving, success, templateMeta, db, saveCall,
           activeTemplateId, draft, activeClauseId, previewMode,
           undoStack, redoStack, nextId, lastOp, usedIds, rt, steps, call >>

authVars == << memberRole, branchOfficeId >>

(***************************************************************************)
(* The clause store: the functions the handlers pass to setDraft.          *)
(***************************************************************************)
Ids(d) == {d[i].id : i \in 1..Len(d)}

\* prev.filter(keep)
RECURSIVE FilterOut(_, _)
FilterOut(prev, sectionId) ==
  IF prev = << >> THEN << >>
  ELSE IF Head(prev).id # sectionId
       THEN << Head(prev) >> \o FilterOut(Tail(prev), sectionId)
       ELSE FilterOut(Tail(prev), sectionId)

\* moveBlock that carries the clause to the end of the list instead of swapping
MoveBlockRotates(prev, index, direction) ==
  IF (direction = "up" /\ index = 0) \/ (direction = "down" /\ index = Len(prev) - 1)
  THEN prev
  ELSE LET rest == SubSeq(prev, 1, index) \o SubSeq(prev, index + 2, Len(prev))
       IN IF direction = "up" THEN << prev[index + 1] >> \o rest
          ELSE Append(rest, prev[index + 1])

\* moveBlock whose target index ignores the direction
MoveBlockAlwaysUp(prev, index, direction) ==
  IF index = 0 THEN prev
  ELSE [prev EXCEPT ![index + 1] = prev[index], ![index] = prev[index + 1]]

\* moveBlock(index, direction), index counted from 0
MoveBlock(prev, index, direction) ==
  IF (direction = "up" /\ index = 0) \/ (direction = "down" /\ index = Len(prev) - 1)
  THEN prev
  ELSE LET targetIndex == IF direction = "up" THEN index - 1 ELSE index + 1
       IN [prev EXCEPT ![index + 1] = prev[targetIndex + 1],
                       ![targetIndex + 1] = prev[index + 1]]

\* handleAddSection that puts the new clause first
AddSectionPrepends(prev, newId) ==
  << Clause(newId, "New Section", FALSE, "") >> \o prev

\* handleAddSection
AddSection(prev, newId) ==
  Append(prev, Clause(newId, "New Section", FALSE, ""))

\* handleDuplicate that renames the section it was handed before copying it
DuplicateRenamesOriginal(prev, section, newId) ==
  Append([i \in 1..Len(prev) |->
            IF prev[i].id = section.id
            THEN [prev[i] EXCEPT !.title = section.title \o " Copy"] ELSE prev[i]],
         [section EXCEPT !.id = newId, !.title = section.title \o " Copy"])

\* handleDuplicate that spreads the section after setting the id
DuplicateKeepsId(prev, section, newId) ==
  Append(prev, [section EXCEPT !.title = section.title \o " Copy"])

\* handleDuplicate
Duplicate(prev, section, newId) ==
  Append(prev, [section EXCEPT !.id = newId, !.title = section.title \o " Copy"])

\* handleAddCommonSection, past its canEdit guard
AddCommonSection(prev, section, newId) ==
  Append(prev, [section EXCEPT !.id = newId])

\* updateClauseContent whose map does not test the id
UpdateClauseContentAll(prev, sectionId, content) ==
  [i \in 1..Len(prev) |-> [prev[i] EXCEPT !.content = content]]

\* updateClauseContent
UpdateClauseContent(prev, sectionId, content) ==
  [i \in 1..Len(prev) |->
     IF prev[i].id = sectionId THEN [prev[i] EXCEPT !.content = content] ELSE prev[i]]

\* the title input's onChange
UpdateClauseTitle(prev, sectionId, title) ==
  [i \in 1..Len(prev) |->
     IF prev[i].id = sectionId THEN [prev[i] EXCEPT !.title = title] ELSE prev[i]]

\* the required checkbox's onChange
UpdateClauseRequired(prev, sectionId, checked) ==
  [i \in 1..Len(prev) |->
     IF prev[i].id = sectionId THEN [prev[i] EXCEPT !.required = checked] ELSE prev[i]]

\* handleRemove that cuts the draft at the clause instead of filtering it out
RemoveSectionTruncates(prev, sectionId) ==
  LET at == {i \in 1..Len(prev) : prev[i].id = sectionId}
  IN IF at = {} THEN prev
     ELSE SubSeq(prev, 1, (CHOOSE i \in at : \A j \in at : i <= j) - 1)

\* handleRemove's setDraft
RemoveSection(prev, sectionId) == FilterOut(prev, sectionId)

(***************************************************************************)
(* The history: each yields the stacks (and the draft) the handler sets.   *)
(***************************************************************************)
\* saveToUndoStack that records on top of the redo entries
SaveToUndoStackKeepsRedo(d, undo, redo) ==
  [undoStack |-> Append(undo, d), redoStack |-> redo]

\* saveToUndoStack
SaveToUndoStack(d, undo, redo) ==
  [undoStack |-> Append(undo, d), redoStack |-> << >>]

\* handleUndo that pushes the restored snapshot, not the current draft
UndoPushesPrevious(d, undo, redo) ==
  IF Len(undo) = 0
  THEN [draft |-> d, undoStack |-> undo, redoStack |-> redo]
  ELSE [draft |-> undo[Len(undo)],
        undoStack |-> SubSeq(undo, 1, Len(undo) - 1),
        redoStack |-> << undo[Len(undo)] >> \o redo]

\* handleUndo that appends the current draft to redoStack
UndoAppendsToRedo(d, undo, redo) ==
  IF Len(undo) = 0
  THEN [draft |-> d, undoStack |-> undo, redoStack |-> redo]
  ELSE [draft |-> undo[Len(undo)],
        undoStack |-> SubSeq(undo, 1, Len(undo) - 1),
        redoStack |-> Append(redo, d)]

\* handleUndo
Undo(d, undo, redo) ==
  IF Len(undo) = 0
  THEN [draft |-> d, undoStack |-> undo, redoStack |-> redo]
  ELSE LET previous == undo[Len(undo)]
       IN [draft |-> previous,
           undoStack |-> SubSeq(undo, 1, Len(undo) - 1),
           redoStack |-> << d >> \o redo]

\* handleRedo that takes the far end of redoStack
RedoTakesLast(d, undo, redo) ==
  IF Len(redo) = 0
  THEN [draft |-> d, undoStack |-> undo, redoStack |-> redo]
  ELSE [draft |-> redo[Len(redo)],
        undoStack |-> Append(undo, d),
        redoStack |-> SubSeq(redo, 1, Len(redo) - 1)]

\* handleRedo
Redo(d, undo, redo) ==
  IF Len(redo) = 0
  THEN [draft |-> d, undoStack |-> undo, redoStack |-> redo]
  ELSE LET next == redo[1]
       IN [draft |-> next,
           undoStack |-> Append(undo, d),
           redoStack |-> SubSeq(redo, 2, Len(redo))]

(***************************************************************************)
(* The text transforms of the toolbar: each yields the callback's result   *)
(* {text, selectionStart, selectionEnd}.                                   *)
(***************************************************************************)
\* value.slice(from, to)
Slice(value, from, to) == SubSeq(value, from + 1, to)

\* the character the source writes as U+2022
BulletChar == "@"

\* wrapSelection that leaves the selection where it was
WrapSelectionKeepsSelection(value, selectionStart, selectionEnd, wrapper) ==
  LET before == Slice(value, 0, selectionStart)
      selected == Slice(value, selectionStart, selectionEnd)
      after == Slice(value, selectionEnd, Len(value))
  IN [text |-> before \o wrapper \o selected \o wrapper \o after,
      selectionStart |-> selectionStart,
      selectionEnd |-> selectionEnd]

\* wrapSelection that takes the markers away when they already enclose the selection
WrapSelectionToggles(value, selectionStart, selectionEnd, wrapper) ==
  LET before == Slice(value, 0, selectionStart)
      selected == Slice(value, selectionStart, selectionEnd)
      after == Slice(value, selectionEnd, Len(value))
      offset == Len(wrapper)
  IN IF /\ selectionStart >= offset
        /\ Slice(value, selectionStart - offset, selectionStart) = wrapper
        /\ Slice(value, selectionEnd, selectionEnd + offset) = wrapper
     THEN [text |-> Slice(value, 0, selectionStart - offset) \o selected
                      \o Slice(value, selectionEnd + offset, Len(value)),
           selectionStart |-> selectionStart - offset,
           selectionEnd |-> selectionEnd - offset]
     ELSE [text |-> before \o wrapper \o selected \o wrapper \o after,
           selectionStart |-> selectionStart + offset,
           selectionEnd |-> selectionEnd + offset]

\* wrapSelection's callback
WrapSelection(value, selectionStart, selectionEnd, wrapper) ==
  LET before == Slice(value, 0, selectionStart)
      selected == Slice(value, selectionStart, selectionEnd)
      after == Slice(value, selectionEnd, Len(value))
      offset == Len(wrapper)
  IN [text |-> before \o wrapper \o selected \o wrapper \o after,
      selectionStart |-> selectionStart + offset,
      selectionEnd |-> selectionEnd + offset]

\* selected.split('\n')
RECURSIVE SplitLines(_)
SplitLines(str) ==
  LET nl == {i \in 1..Len(str) : SubSeq(str, i, i) = "\n"}
  IN IF nl = {} THEN << str >>
     ELSE LET first == CHOOSE i \in nl : \A j \in nl : i <= j
          IN << SubSeq(str, 1, first - 1) >> \o SplitLines(SubSeq(str, first + 1, Len(str)))

\* line.length in place of line.trim().length
TrimmedLengthCountsSpaces(line) == Len(line)

\* line.trim().length
TrimmedLength(line) ==
  LET ink == {i \in 1..Len(line) : SubSeq(line, i, i) \notin {" ", "\n", "\t"}}
  IN IF ink = {} THEN 0
     ELSE (CHOOSE i \in ink : \A j \in ink : j <= i)
          - (CHOOSE i \in ink : \A j \in ink : i <= j) + 1

\* formattedLines.join('\n')
RECURSIVE JoinLines(_)
JoinLines(lines) ==
  IF Len(lines) = 0 THEN ""
  ELSE IF Len(lines) = 1 THEN lines[1]
  ELSE lines[1] \o "\n" \o JoinLines(Tail(lines))

\* insertBullets that numbers the lines from 0
InsertBulletsZeroBased(value, selectionStart, selectionEnd, bulletType) ==
  LET before == Slice(value, 0, selectionStart)
      selected == Slice(value, selectionStart, selectionEnd)
      after == Slice(value, selectionEnd, Len(value))
      lines == SplitLines(selected)
      formattedLines ==
        [index \in 1..Len(lines) |->
           LET content == IF TrimmedLength(lines[index]) # 0 THEN lines[index]
                          ELSE "Clause text"
           IN IF bulletType = "bulleted"
              THEN BulletChar \o " " \o content
              ELSE ToString(index - 1) \o ". " \o content]
      insertion == JoinLines(formattedLines)
      start == Len(before)
  IN [text |-> before \o insertion \o after,
      selectionStart |-> start,
      selectionEnd |-> start + Len(insertion)]

\* insertBullets whose returned end is counted from the old selection end
InsertBulletsEndFromSelection(value, selectionStart, selectionEnd, bulletType) ==
  LET before == Slice(value, 0, selectionStart)
      selected == Slice(value, selectionStart, selectionEnd)
      after == Slice(value, selectionEnd, Len(value))
      lines == SplitLines(selected)
      formattedLines ==
        [index \in 1..Len(lines) |->
           LET content == IF TrimmedLength(lines[index]) # 0 THEN lines[index]
                          ELSE "Clause text"
           IN IF bulletType = "bulleted"
              THEN BulletChar \o " " \o content
              ELSE ToString(index) \o ". " \o content]
      insertion == JoinLines(formattedLines)
  IN [text |-> before \o insertion \o after,
      selectionStart |-> Len(before),
      selectionEnd |-> selectionEnd + Len(insertion)]

\* insertBullets's callback
InsertBullets(value, selectionStart, selectionEnd, bulletType) ==
  LET before == Slice(value, 0, selectionStart)
      selected == Slice(value, selectionStart, selectionEnd)
      after == Slice(value, selectionEnd, Len(value))
      lines == SplitLines(selected)
      formattedLines ==
        [index \in 1..Len(lines) |->
           LET content == IF TrimmedLength(lines[index]) # 0 THEN lines[index]
                          ELSE "Clause text"
           IN IF bulletType = "bulleted"
              THEN BulletChar \o " " \o content
              ELSE ToString(index) \o ". " \o content]
      insertion == JoinLines(formattedLines)
      start == Len(before)
  IN [text |-> before \o insertion \o after,
      selectionStart |-> start,
      selectionEnd |-> start + Len(insertion)]

\* insertHeading whose selection leaves the prefix out
InsertHeadingSelectsText(value, selectionStart, selectionEnd, level) ==
  LET before == Slice(value, 0, selectionStart)
      sliced == Slice(value, selectionStart, selectionEnd)
      selected == IF sliced = "" THEN "Heading" ELSE sliced
      after == Slice(value, selectionEnd, Len(value))
      prefix == IF level = 2 THEN "## " ELSE "### "
      start == Len(before) + Len(prefix)
  IN [text |-> before \o prefix \o selected \o after,
      selectionStart |-> start,
      selectionEnd |-> start + Len(selected)]

\* insertHeading's callback
InsertHeading(value, selectionStart, selectionEnd, level) ==
  LET before == Slice(value, 0, selectionStart)
      sliced == Slice(value, selectionStart, selectionEnd)
      selected == IF sliced = "" THEN "Heading" ELSE sliced
      after == Slice(value, selectionEnd, Len(value))
      prefix == IF level = 2 THEN "## " ELSE "### "
      start == Len(before)
  IN [text |-> before \o prefix \o selected \o after,
      selectionStart |-> start,
      selectionEnd |-> start + Len(prefix) + Len(selected)]

ToolbarActions == {"bold", "italic", "underline", "bullet", "numbered", "h2", "h3"}

\* the switch of handleToolbarAction: the callback handed to withActiveTextArea
ToolbarCallback(action, value, selectionStart, selectionEnd) ==
  CASE action = "bold" -> WrapSelection(value, selectionStart, selectionEnd, "**")
    [] action = "italic" -> WrapSelection(value, selectionStart, selectionEnd, "*")
    [] action = "underline" -> WrapSelection(value, selectionStart, selectionEnd, "__")
    [] action = "bullet" -> InsertBullets(value, selectionStart, selectionEnd, "bulleted")
    [] action = "numbered" -> InsertBullets(value, selectionStart, selectionEnd, "numbered")
    [] action = "h2" -> InsertHeading(value, selectionStart, selectionEnd, 2)
    [] action = "h3" -> InsertHeading(value, selectionStart, selectionEnd, 3)


(***************************************************************************)
(* The editor: its state after construction and its handlers.              *)
(***************************************************************************)
IsOrgAdmin == memberRole = "org_admin"
IsBranchAdmin == memberRole = "branch_admin"
\* canEdit that every role has
CanEditAnyRole == TRUE

CanEdit == IsOrgAdmin \/ IsBranchAdmin

NoRun == [phase |-> 0, s0 |-> << >>, s1 |-> << >>]

\* templateMeta's initial value
NoMeta == [name |-> "", description |-> "", visibility |-> "organization"]

\* no saveTemplate call is in flight
NoSave == [payload |-> Null]
NoCall == [fn |-> "none"]

\* the behaviour may take another counted step
Ready == steps < MaxSteps

\* the handlers that MaxSteps does not count
FreeOps == {"loadTemplates", "loadTemplatesFailed", "undo", "redo",
            "saveDone", "saveFailed"}

\* useState initial values; the mount effect has called loadTemplates
Init ==
  /\ \E auth \in AuthContexts : memberRole = auth[1] /\ branchOfficeId = auth[2]
  /\ templates = << >>
  /\ loading = TRUE
  /\ error = Null
  /\ saving = FALSE
  /\ success = Null
  /\ templateMeta = NoMeta
  /\ db = PersistedTemplates
  /\ saveCall = NoSave
  /\ activeTemplateId = Null
  /\ draft = << >>
  /\ activeClauseId = Null
  /\ previewMode = FALSE
  /\ undoStack = << >>
  /\ redoStack = << >>
  /\ nextId = 0
  /\ lastOp = "init"
  /\ usedIds = {}
  /\ rt = NoRun
  /\ steps = 0
  /\ call = NoCall

\* the history variables after the handler op has set draft'
History(op, run) ==
  /\ steps' = IF op \in FreeOps THEN steps ELSE steps + 1
  /\ lastOp' = op
  /\ usedIds' = usedIds \cup Ids(draft')
  /\ rt' = run
  /\ UNCHANGED call

\* the effect that fills the draft only while it is empty
EffectDraftWhenEmpty(tmpls, activeId, d) ==
  IF activeId = Null \/ d # << >> THEN d
  ELSE LET found == {i \in 1..Len(tmpls) : tmpls[i].id = activeId}
       IN IF found = {} THEN d
          ELSE tmpls[CHOOSE i \in found : \A j \in found : i <= j].sections

\* useEffect [activeTemplateId, templates]: the draft it leaves
EffectDraft(tmpls, activeId, d) ==
  IF activeId = Null THEN d
  ELSE LET found == {i \in 1..Len(tmpls) : tmpls[i].id = activeId}
       IN IF found = {} THEN d
          ELSE tmpls[CHOOSE i \in found : \A j \in found : i <= j].sections

\* the name, description and visibility setTemplateMeta takes from a template
MetaOf(tmpl) ==
  [name |-> tmpl.name, description |-> tmpl.description, visibility |-> tmpl.visibility]

\* useEffect [activeTemplateId, templates]: the templateMeta it leaves
EffectMeta(tmpls, activeId, meta) ==
  IF activeId = Null THEN meta
  ELSE LET found == {i \in 1..Len(tmpls) : tmpls[i].id = activeId}
       IN IF found = {} THEN meta
          ELSE MetaOf(tmpls[CHOOSE i \in found : \A j \in found : i <= j])

\* fetchTemplates({organizationId, branchOfficeId}) on the rows of the organization
RECURSIVE FetchTemplates(_, _)
FetchTemplates(rows, office) ==
  IF rows = << >> THEN << >>
  ELSE LET row == Head(rows)
           visible == IF office # Null
                      THEN row.branch_office_id = Null \/ row.branch_office_id = office
                      ELSE row.visibility = "organization"
       IN (IF visible THEN << row >> ELSE << >>) \o FetchTemplates(Tail(rows), office)

\* the rows an upsert on id leaves alone
RECURSIVE OtherRows(_, _)
OtherRows(rows, id) ==
  IF rows = << >> THEN << >>
  ELSE (IF Head(rows).id # id THEN << Head(rows) >> ELSE << >>) \o OtherRows(Tail(rows), id)

\* saveTemplate(template): upsert on id; the row carries the latest updated_at
SaveTemplate(rows, template) == << template >> \o OtherRows(rows, template.id)

\* loadTemplates: fetchTemplates resolved
LoadTemplatesDone ==
  /\ loading
  /\ LET data == FetchTemplates(db, branchOfficeId)
         activeId == IF Len(data) > 0 THEN data[1].id ELSE activeTemplateId
         loaded == IF Len(data) > 0 THEN data[1].sections ELSE draft
         meta == IF Len(data) > 0 THEN MetaOf(data[1]) ELSE templateMeta
     IN /\ templates' = data
        /\ activeTemplateId' = activeId
        /\ templateMeta' = EffectMeta(data, activeId, meta)
        /\ draft' = EffectDraft(data, activeId, loaded)
  /\ loading' = FALSE
  /\ UNCHANGED << authVars, error, saving, success, db, saveCall, activeClauseId,
                  previewMode, undoStack, redoStack, nextId >>
  /\ History("loadTemplates", NoRun)

\* loadTemplates: fetchTemplates rejected
LoadTemplatesFail ==
  /\ loading
  /\ error' = "Unable to load templates."
  /\ loading' = FALSE
  /\ UNCHANGED << authVars, templates, saving, success, templateMeta, db, saveCall,
                  activeTemplateId, draft, activeClauseId,
                  previewMode, undoStack, redoStack, nextId >>
  /\ History("loadTemplatesFailed", NoRun)

\* the template library's onClick, and the effect it triggers
SelectTemplate(id) ==
  /\ Ready
  /\ ~loading
  /\ activeTemplateId' = id
  /\ draft' = IF id = activeTemplateId THEN draft ELSE EffectDraft(templates, id, draft)
  /\ templateMeta' = IF id = activeTemplateId THEN templateMeta
                     ELSE EffectMeta(templates, id, templateMeta)
  /\ UNCHANGED << authVars, templates, loading, error, saving, success, db, saveCall,
                  activeClauseId, previewMode, undoStack, redoStack, nextId >>
  /\ History(IF id = activeTemplateId THEN "selectActiveTemplate" ELSE "switchTemplate",
             NoRun)

\* the New Template button's onClick, and the effect it triggers
NewTemplate ==
  /\ Ready
  /\ CanEdit
  /\ IF IsBranchAdmin /\ branchOfficeId = Null
     THEN /\ error' = "Branch templates require an assigned office."
          /\ UNCHANGED << templates, activeTemplateId, templateMeta, draft, nextId >>
          /\ History("newTemplateRefused", NoRun)
     ELSE /\ LET newId == RandomUUID(nextId + 1)
                 tmpl == [id |-> newId, branch_office_id |-> Null,
                          name |-> "New Template", description |-> "",
                          visibility |-> IF IsBranchAdmin THEN "branch" ELSE "organization",
                          sections |-> << >>]
             IN /\ templates' = << tmpl >> \o templates
                /\ activeTemplateId' = newId
                /\ templateMeta' = EffectMeta(<< tmpl >> \o templates, newId, MetaOf(tmpl))
                /\ draft' = EffectDraft(<< tmpl >> \o templates, newId, << >>)
          /\ nextId' = nextId + 1
          /\ UNCHANGED error
          /\ History("newTemplate", NoRun)
  /\ UNCHANGED << authVars, loading, saving, success, db, saveCall, activeClauseId,
                  previewMode, undoStack, redoStack >>

\* the preview button's onClick
TogglePreview ==
  /\ Ready
  /\ ~loading
  /\ previewMode' = ~previewMode
  /\ UNCHANGED << authVars, templates, loading, error, saving, success, templateMeta,
                  db, saveCall, activeTemplateId, draft,
                  activeClauseId, undoStack, redoStack, nextId >>
  /\ History("togglePreview", rt)

\* a clause's text area is mounted: edit mode, and the clause is in the draft
TextAreaMounted(id) == ~loading /\ ~previewMode /\ id \in Ids(draft)

\* the text area's onFocus
FocusClause(i) ==
  /\ Ready
  /\ CanEdit
  /\ TextAreaMounted(draft[i].id)
  /\ activeClauseId' = draft[i].id
  /\ UNCHANGED << authVars, templates, loading, error, saving, success, templateMeta,
                  db, saveCall, activeTemplateId, draft,
                  previewMode, undoStack, redoStack, nextId >>
  /\ History("focus", rt)

\* what no clause-store handler touches
editorFrame == << authVars, templates, loading, error, saving, success, templateMeta,
                  db, saveCall, activeTemplateId, previewMode >>

\* the per-clause buttons are rendered: canEdit && !previewMode
ClauseButtons == ~loading /\ CanEdit /\ ~previewMode

\* The Clause button: handleAddSection
HandleAddSection ==
  /\ Ready
  /\ ~loading /\ CanEdit
  /\ draft' = AddSection(draft, RandomUUID(nextId + 1))
  /\ nextId' = nextId + 1
  /\ UNCHANGED << editorFrame, activeClauseId, undoStack, redoStack >>
  /\ History("add", NoRun)

\* The Duplicate button of clause i: handleDuplicate(block)
HandleDuplicate(i) ==
  /\ Ready
  /\ ClauseButtons
  /\ draft' = Duplicate(draft, draft[i], RandomUUID(nextId + 1))
  /\ nextId' = nextId + 1
  /\ UNCHANGED << editorFrame, activeClauseId, undoStack, redoStack >>
  /\ History("duplicate", NoRun)

\* A Common Clauses button: handleAddCommonSection(section)
HandleAddCommonSection(k) ==
  /\ Ready
  /\ ~loading /\ CanEdit
  /\ draft' = AddCommonSection(draft, COMMON_SECTIONS[k], RandomUUID(nextId + 1))
  /\ nextId' = nextId + 1
  /\ UNCHANGED << editorFrame, activeClauseId, undoStack, redoStack >>
  /\ History("addCommon", NoRun)

\* The Move up / Move down buttons of clause i: moveBlock(index, direction)
HandleMove(i, direction) ==
  /\ Ready
  /\ ClauseButtons
  /\ draft' = MoveBlock(draft, i - 1, direction)
  /\ UNCHANGED << editorFrame, activeClauseId, undoStack, redoStack, nextId >>
  /\ History("move", NoRun)

\* The Remove button of clause i: handleRemove(block.id)
HandleRemove(i) ==
  /\ Ready
  /\ ClauseButtons
  /\ LET saved == SaveToUndoStack(draft, undoStack, redoStack)
     IN /\ undoStack' = saved.undoStack
        /\ redoStack' = saved.redoStack
  /\ draft' = RemoveSection(draft, draft[i].id)
  /\ UNCHANGED << editorFrame, activeClauseId, nextId >>
  /\ History("remove", [phase |-> 1, s0 |-> draft, s1 |-> draft'])

\* typing that calls saveToUndoStack before updateClauseContent
TypeContentRecording(i, text) ==
  /\ Ready
  /\ CanEdit
  /\ TextAreaMounted(draft[i].id)
  /\ activeClauseId' = draft[i].id
  /\ undoStack' = Append(undoStack, draft)
  /\ draft' = UpdateClauseContent(draft, draft[i].id, text)
  /\ UNCHANGED << editorFrame, redoStack, nextId >>
  /\ History("typeContent", NoRun)

\* typing into the text area of clause i: onFocus, then onChange
TypeContent(i, text) ==
  /\ Ready
  /\ CanEdit
  /\ TextAreaMounted(draft[i].id)
  /\ activeClauseId' = draft[i].id
  /\ draft' = UpdateClauseContent(draft, draft[i].id, text)
  /\ UNCHANGED << editorFrame, undoStack, redoStack, nextId >>
  /\ History("typeContent", NoRun)

\* typing into the title input of clause i
TypeTitle(i, text) ==
  /\ Ready
  /\ ~loading /\ CanEdit /\ ~previewMode
  /\ draft' = UpdateClauseTitle(draft, draft[i].id, text)
  /\ UNCHANGED << editorFrame, activeClauseId, undoStack, redoStack, nextId >>
  /\ History("typeTitle", NoRun)

\* clicking the Required checkbox of clause i
ToggleRequired(i) ==
  /\ Ready
  /\ ClauseButtons
  /\ draft' = UpdateClauseRequired(draft, draft[i].id, ~draft[i].required)
  /\ UNCHANGED << editorFrame, activeClauseId, undoStack, redoStack, nextId >>
  /\ History("toggleRequired", NoRun)

\* The Undo button: handleUndo
HandleUndo ==
  /\ ~loading /\ CanEdit
  /\ LET r == Undo(draft, undoStack, redoStack)
     IN /\ draft' = r.draft
        /\ undoStack' = r.undoStack
        /\ redoStack' = r.redoStack
  /\ UNCHANGED << editorFrame, activeClauseId, nextId >>
  /\ History("undo",
             IF Len(undoStack) > 0 /\ rt.phase \in {1, 3}
             THEN [rt EXCEPT !.phase = @ + 1] ELSE NoRun)

\* The Redo button: handleRedo
HandleRedo ==
  /\ ~loading /\ CanEdit
  /\ LET r == Redo(draft, undoStack, redoStack)
     IN /\ draft' = r.draft
        /\ undoStack' = r.undoStack
        /\ redoStack' = r.redoStack
  /\ UNCHANGED << editorFrame, activeClauseId, nextId >>
  /\ History("redo",
             IF Len(redoStack) > 0 /\ rt.phase = 2
             THEN [rt EXCEPT !.phase = 3] ELSE NoRun)

\* the template inputs are rendered: the editor is shown and a template is active
MetaInputs == ~loading /\ CanEdit /\ activeTemplateId # Null

\* what neither a template input nor handleSave touches
saveFrame == << authVars, templates, loading, db, activeTemplateId, draft, activeClauseId,
               previewMode, undoStack, redoStack >>

\* typing into the template's name input
TypeName(text) ==
  /\ Ready
  /\ MetaInputs
  /\ templateMeta' = [templateMeta EXCEPT !.name = text]
  /\ UNCHANGED << saveFrame, error, saving, success, saveCall, nextId >>
  /\ History("typeName", rt)

\* typing into the template's description input
TypeDescription(text) ==
  /\ Ready
  /\ MetaInputs
  /\ templateMeta' = [templateMeta EXCEPT !.description = text]
  /\ UNCHANGED << saveFrame, error, saving, success, saveCall, nextId >>
  /\ History("typeDescription", rt)

\* the visibility select, rendered for an org admin: onChange with another option
SelectVisibility(visibility) ==
  /\ Ready
  /\ MetaInputs /\ IsOrgAdmin
  /\ visibility # templateMeta.visibility
  /\ templateMeta' = [templateMeta EXCEPT !.visibility = visibility]
  /\ UNCHANGED << saveFrame, error, saving, success, saveCall, nextId >>
  /\ History("selectVisibility", rt)

\* the string as typed, where the source takes str.trim()
TrimKeepsBlanks(str) == str

\* str.trim()
Trim(str) ==
  LET ink == {i \in 1..Len(str) : SubSeq(str, i, i) \notin {" ", "\n", "\t"}}
  IN IF ink = {} THEN ""
     ELSE SubSeq(str, CHOOSE i \in ink : \A j \in ink : i <= j,
                      CHOOSE i \in ink : \A j \in ink : j <= i)

\* The Save button: handleSave up to its await, organization and user present
HandleSave ==
  /\ Ready
  /\ ~loading /\ CanEdit /\ ~saving
  /\ UNCHANGED << saveFrame, templateMeta >>
  /\ IF Len(Trim(templateMeta.name)) = 0
     THEN /\ error' = "Template name is required."
          /\ UNCHANGED << saving, success, saveCall, nextId >>
          /\ History("saveInvalid", rt)
     ELSE LET templateId == IF activeTemplateId # Null THEN activeTemplateId
                            ELSE RandomUUID(nextId + 1)
              effectiveVisibility == IF IsOrgAdmin THEN templateMeta.visibility ELSE "branch"
              branchTarget == IF effectiveVisibility = "branch" THEN branchOfficeId ELSE Null
              payload == [id |-> templateId, branch_office_id |-> branchTarget,
                          name |-> Trim(templateMeta.name),
                          description |-> Trim(templateMeta.description),
                          visibility |-> effectiveVisibility,
                          sections |-> draft]
          IN /\ nextId' = IF activeTemplateId # Null THEN nextId ELSE nextId + 1
             /\ success' = Null
             /\ IF effectiveVisibility = "branch" /\ branchTarget = Null
                THEN /\ error' = "Branch templates require a branch office context."
                     /\ saving' = FALSE
                     /\ UNCHANGED saveCall
                     /\ History("saveInvalid", rt)
                ELSE /\ error' = Null
                     /\ saving' = TRUE
                     /\ saveCall' = [payload |-> payload, activeTemplateId |-> activeTemplateId]
                     /\ History("save", rt)

\* handleSave past its await: saveTemplate resolved; loadTemplates() is called
\* and not awaited, so it has set loading when setSaving(false) runs
SaveResolved ==
  /\ saveCall # NoSave
  /\ db' = SaveTemplate(db, saveCall.payload)
  /\ success' = "Template saved."
  /\ LET activeId == IF saveCall.activeTemplateId = Null THEN saveCall.payload.id
                     ELSE activeTemplateId
     IN /\ activeTemplateId' = activeId
        /\ draft' = IF activeId = activeTemplateId THEN draft
                    ELSE EffectDraft(templates, activeId, draft)
        /\ templateMeta' = IF activeId = activeTemplateId THEN templateMeta
                           ELSE EffectMeta(templates, activeId, templateMeta)
  /\ loading' = TRUE
  /\ error' = Null
  /\ saving' = FALSE
  /\ saveCall' = NoSave
  /\ UNCHANGED << authVars, templates, activeClauseId, previewMode, undoStack, redoStack,
                  nextId >>
  /\ History("saveDone", IF draft' = draft THEN rt ELSE NoRun)

\* handleSave past its await: saveTemplate rejected
SaveRejected ==
  /\ saveCall # NoSave
  /\ error' = "Unable to save template."
  /\ saving' = FALSE
  /\ saveCall' = NoSave
  /\ UNCHANGED << saveFrame, success, templateMeta, nextId >>
  /\ History("saveFailed", rt)

\* the selections the editor draws for a text area holding value: the caret
\* at the end, and the whole value selected
Selections(value) == {<< Len(value), Len(value) >>, << 0, Len(value) >>}

\* withActiveTextArea: the clause it targets
TargetId == IF activeClauseId # Null THEN activeClauseId
            ELSE IF Len(draft) > 0 THEN draft[1].id ELSE Null

ContentOf(d, id) == d[CHOOSE i \in 1..Len(d) : d[i].id = id].content

\* the selections of the targeted text area; with none mounted, none is read
ToolbarSelections ==
  IF TargetId = Null \/ ~TextAreaMounted(TargetId) THEN {<< 0, 0 >>}
  ELSE Selections(ContentOf(draft, TargetId))

\* A toolbar button: handleToolbarAction(action), with the text area holding
\* the selection sel
HandleToolbarAction(action, sel) ==
  /\ Ready
  /\ ~loading /\ CanEdit
  /\ IF Len(draft) = 0
     THEN /\ UNCHANGED << draft, undoStack, redoStack, activeClauseId >>
          /\ History("toolbar", NoRun)
     ELSE /\ LET saved == SaveToUndoStack(draft, undoStack, redoStack)
             IN /\ undoStack' = saved.undoStack
                /\ redoStack' = saved.redoStack
          /\ IF TargetId = Null \/ ~TextAreaMounted(TargetId)
             THEN UNCHANGED << draft, activeClauseId >>
             ELSE LET value == ContentOf(draft, TargetId)
                      result == ToolbarCallback(action, value, sel[1], sel[2])
                  IN /\ sel \in Selections(value)
                     /\ draft' = UpdateClauseContent(draft, TargetId, result.text)
                     /\ activeClauseId' = TargetId
          /\ History("toolbar", [phase |-> 1, s0 |-> draft, s1 |-> draft'])
  /\ UNCHANGED << editorFrame, nextId >>

Positions == 1..Len(draft)

Next ==
  \/ LoadTemplatesDone
  \/ LoadTemplatesFail
  \/ \E i \in 1..Len(templates) : SelectTemplate(templates[i].id)
  \/ NewTemplate
  \/ TogglePreview
  \/ \E i \in Positions : FocusClause(i)
  \/ HandleAddSection
  \/ \E i \in Positions : HandleDuplicate(i)
  \/ \E k \in 1..Len(COMMON_SECTIONS) : HandleAddCommonSection(k)
  \/ \E i \in Positions, direction \in {"up", "down"} : HandleMove(i, direction)
  \/ \E i \in Positions : HandleRemove(i)
  \/ \E i \in Positions, text \in ContentInputs : TypeContent(i, text)
  \/ \E i \in Positions, text \in TitleInputs : TypeTitle(i, text)
  \/ \E i \in Positions : ToggleRequired(i)
  \/ HandleUndo
  \/ HandleRedo
  \/ \E action \in ToolbarActions, sel \in ToolbarSelections :
       HandleToolbarAction(action, sel)
  \/ \E text \in NameInputs : TypeName(text)
  \/ \E text \in DescriptionInputs : TypeDescription(text)
  \/ \E visibility \in {"organization", "branch"} : SelectVisibility(visibility)
  \/ HandleSave
  \/ SaveResolved
  \/ SaveRejected

Spec == Init /\ [][Next]_vars


(***************************************************************************)
(* The editor from a focused clause: SpecFocus starts where Spec is after  *)
(* the mount's fetch has resolved and the user has put the caret into a    *)
(* clause of the loaded template, and then runs the same handlers.         *)
(***************************************************************************)
InitFocused ==
  /\ \E auth \in AuthContexts :
       /\ auth[1] \in {"org_admin", "branch_admin"}
       /\ memberRole = auth[1] /\ branchOfficeId = auth[2]
  /\ db = PersistedTemplates
  /\ templates = FetchTemplates(PersistedTemplates, Null)
  /\ loading = FALSE
  /\ error = Null
  /\ saving = FALSE
  /\ success = Null
  /\ saveCall = NoSave
  /\ activeTemplateId = PersistedTemplates[1].id
  /\ templateMeta = MetaOf(PersistedTemplates[1])
  /\ draft = PersistedTemplates[1].sections
  /\ \E i \in 1..Len(PersistedTemplates[1].sections) :
       activeClauseId = PersistedTemplates[1].sections[i].id
  /\ previewMode = FALSE
  /\ undoStack = << >>
  /\ redoStack = << >>
  /\ nextId = 0
  /\ lastOp = "focus"
  /\ usedIds = Ids(PersistedTemplates[1].sections)
  /\ rt = NoRun
  /\ steps = 0
  /\ call = NoCall

SpecFocus == InitFocused /\ [][Next]_vars


(***************************************************************************)
(* moveBlock as a function: SpecMove draws a draft, an index and a         *)
(* direction, applies moveBlock, and after a move up moves the same clause *)
(* down again.                                                             *)
(***************************************************************************)
\* the longest draft SpecMove draws
MaxMoveLen == 5

MoveClause(k) ==
  Clause("c" \o ToString(k), "Title " \o ToString(k), k % 2 = 0, "text " \o ToString(k))

\* the drafts of up to MaxMoveLen clauses with distinct ids, in every order
MoveDrafts ==
  UNION {{[i \in 1..n |-> MoveClause(f[i])] :
            f \in {g \in [1..n -> 1..n] : \A a, b \in 1..n : g[a] = g[b] => a = b}} :
         n \in 1..MaxMoveLen}

\* the editor, untouched while a function is applied
editorVars == << memberRole, branchOfficeId, templates, loading, error,
                 saving, success, templateMeta, db, saveCall,
                 activeTemplateId, draft, activeClauseId, previewMode,
                 undoStack, redoStack, nextId, lastOp, usedIds, rt, steps >>

InitMove ==
  /\ memberRole = "org_admin"
  /\ branchOfficeId = Null
  /\ templates = << >>
  /\ loading = TRUE
  /\ error = Null
  /\ saving = FALSE
  /\ success = Null
  /\ templateMeta = NoMeta
  /\ db = PersistedTemplates
  /\ saveCall = NoSave
  /\ activeTemplateId = Null
  /\ draft = << >>
  /\ activeClauseId = Null
  /\ previewMode = FALSE
  /\ undoStack = << >>
  /\ redoStack = << >>
  /\ nextId = 0
  /\ lastOp = "init"
  /\ usedIds = {}
  /\ rt = NoRun
  /\ steps = 0
  /\ \E d \in MoveDrafts, index \in 0..(MaxMoveLen - 1), direction \in {"up", "down"} :
       /\ index < Len(d)
       /\ call = [fn |-> "moveBlock", stage |-> "input", prev |-> d, index |-> index,
                  direction |-> direction, result |-> d, back |-> d]

\* the position, counted from 0, of the clause with this id
IndexOf(d, id) == (CHOOSE i \in 1..Len(d) : d[i].id = id) - 1

\* setDraft(moveBlock(index, direction))
ApplyMove ==
  /\ call.fn = "moveBlock" /\ call.stage = "input"
  /\ call' = [call EXCEPT !.stage = "moved",
                          !.result = MoveBlock(call.prev, call.index, call.direction)]
  /\ UNCHANGED editorVars

\* after a move up: the Move down button of the same clause
ApplyMoveBack ==
  /\ call.fn = "moveBlock" /\ call.stage = "moved"
  /\ call.direction = "up" /\ call.index > 0
  /\ call' = [call EXCEPT !.stage = "movedBack",
                          !.back = MoveBlock(call.result,
                                             IndexOf(call.result, call.prev[call.index + 1].id),
                                             "down")]
  /\ UNCHANGED editorVars

NextMove ==
  \/ ApplyMove
  \/ ApplyMoveBack

SpecMove == InitMove /\ [][NextMove]_vars

(***************************************************************************)
(* The clause store as functions: SpecStore draws a state the editor can   *)
(* be in (draft, undoStack, redoStack) and runs up to MaxStoreOps of the   *)
(* handlers that pass a function to setDraft, each with an argument drawn  *)
(* from the ids of the draft and one id that no clause has.                *)
(***************************************************************************)
\* how many handlers SpecStore runs one after another
MaxStoreOps == 3

\* the editor at its constructed state, untouched by the function specifications
EditorConstructed ==
  /\ memberRole = "org_admin"
  /\ branchOfficeId = Null
  /\ templates = << >>
  /\ loading = TRUE
  /\ error = Null
  /\ saving = FALSE
  /\ success = Null
  /\ templateMeta = NoMeta
  /\ db = PersistedTemplates
  /\ saveCall = NoSave
  /\ activeTemplateId = Null
  /\ draft = << >>
  /\ activeClauseId = Null
  /\ previewMode = FALSE
  /\ undoStack = << >>
  /\ redoStack = << >>
  /\ nextId = 0
  /\ lastOp = "init"
  /\ usedIds = {}
  /\ rt = NoRun
  /\ steps = 0

StoreState(d, undo, redo) == [draft |-> d, undoStack |-> undo, redoStack |-> redo]

\* the states SpecStore starts from, with the number of ids handed out so far:
\* a new template; template t1 as loaded; t1 after Clause, Remove s1, Remove s2, Undo
StoreStarts ==
  LET t1 == PersistedTemplates[1].sections
      added == Clause(RandomUUID(1), "New Section", FALSE, "")
  IN { [state |-> StoreState(<< >>, << >>, << >>), nextId |-> 0],
       [state |-> StoreState(t1, << >>, << >>), nextId |-> 0],
       [state |-> StoreState(<< t1[2], added >>, << Append(t1, added) >>, << << added >> >>),
        nextId |-> 1] }

\* an id that no clause of the draft has
MissingId == "missing"

\* the section ids a handler may be called with
StoreIdInputs(d) == Ids(d) \cup {MissingId}

\* the clause of d with this id
SectionOf(d, id) == d[CHOOSE i \in 1..Len(d) : d[i].id = id]

InitStore ==
  /\ EditorConstructed
  /\ \E start \in StoreStarts :
       call = [fn |-> "store", ops |-> << >>, trail |-> << start.state >>,
               nextId |-> start.nextId]

\* the state the store is in, and the state before its last handler
StoreNow == call.trail[Len(call.trail)]
StoreBefore == call.trail[Len(call.trail) - 1]
StoreLastOp == call.ops[Len(call.ops)]

StoreReady == call.fn = "store" /\ Len(call.ops) < MaxStoreOps

\* the store after a handler op that left the state next
StoreStep(op, next, ids) ==
  /\ call' = [call EXCEPT !.ops = Append(@, op), !.trail = Append(@, next),
                          !.nextId = @ + ids]
  /\ UNCHANGED editorVars

\* handleAddSection()
StoreAdd ==
  /\ StoreReady
  /\ StoreStep([op |-> "add"],
               [StoreNow EXCEPT !.draft = AddSection(@, RandomUUID(call.nextId + 1))], 1)

\* handleDuplicate(block) for a clause of the draft
StoreDuplicate(id) ==
  /\ StoreReady
  /\ id \in Ids(StoreNow.draft)
  /\ StoreStep([op |-> "duplicate", id |-> id],
               [StoreNow EXCEPT !.draft = Duplicate(@, SectionOf(@, id),
                                                    RandomUUID(call.nextId + 1))], 1)

\* handleRemove(sectionId): saveToUndoStack(), then setDraft
StoreRemove(sectionId) ==
  /\ StoreReady
  /\ LET saved == SaveToUndoStack(StoreNow.draft, StoreNow.undoStack, StoreNow.redoStack)
     IN StoreStep([op |-> "remove", id |-> sectionId],
                  StoreState(RemoveSection(StoreNow.draft, sectionId),
                             saved.undoStack, saved.redoStack), 0)

\* updateClauseContent(sectionId, content)
StoreUpdateContent(sectionId, content) ==
  /\ StoreReady
  /\ StoreStep([op |-> "update", id |-> sectionId, field |-> "content", value |-> content],
               [StoreNow EXCEPT !.draft = UpdateClauseContent(@, sectionId, content)], 0)

\* the title input's onChange for the clause sectionId
StoreUpdateTitle(sectionId, title) ==
  /\ StoreReady
  /\ StoreStep([op |-> "update", id |-> sectionId, field |-> "title", value |-> title],
               [StoreNow EXCEPT !.draft = UpdateClauseTitle(@, sectionId, title)], 0)

\* the required checkbox's onChange for the clause sectionId
StoreUpdateRequired(sectionId, checked) ==
  /\ StoreReady
  /\ StoreStep([op |-> "update", id |-> sectionId, field |-> "required", value |-> checked],
               [StoreNow EXCEPT !.draft = UpdateClauseRequired(@, sectionId, checked)], 0)

\* what the checkbox of the clause hands its onChange: the box as clicked
CheckedInputs(d, id) ==
  IF id \in Ids(d) THEN {~SectionOf(d, id).required} ELSE {TRUE}

NextStore ==
  \/ StoreAdd
  \/ \E id \in StoreIdInputs(StoreNow.draft) : StoreDuplicate(id)
  \/ \E id \in StoreIdInputs(StoreNow.draft) : StoreRemove(id)
  \/ \E id \in StoreIdInputs(StoreNow.draft), text \in ContentInputs :
       StoreUpdateContent(id, text)
  \/ \E id \in StoreIdInputs(StoreNow.draft), text \in TitleInputs :
       StoreUpdateTitle(id, text)
  \/ \E id \in StoreIdInputs(StoreNow.draft) :
       \E checked \in CheckedInputs(StoreNow.draft, id) : StoreUpdateRequired(id, checked)

SpecStore == InitStore /\ [][NextStore]_vars


(***************************************************************************)
(* The text transforms as functions: SpecText draws what a text area holds *)
(* (its value and its selection) and a toolbar action, applies the         *)
(* action's callback, and applies it once more to the text and selection   *)
(* the first application left in the text area.                            *)
(***************************************************************************)
\* the longest text SpecText builds from TextAlphabet
MaxTextLen == 3

\* a letter, a blank and a line break
TextAlphabet == {"a", " ", "\n"}

RECURSIVE TextsOfLen(_)
TextsOfLen(n) ==
  IF n = 0 THEN {""}
  ELSE {t \o c : t \in TextsOfLen(n - 1), c \in TextAlphabet}

\* textarea.value
TextBuffers == UNION {TextsOfLen(n) : n \in 0..MaxTextLen} \cup {"Hello", "a\nb"}

NoResult == [text |-> "", selectionStart |-> 0, selectionEnd |-> 0]

\* textarea.value, textarea.selectionStart <= textarea.selectionEnd
InitText ==
  /\ EditorConstructed
  /\ \E value \in TextBuffers, action \in ToolbarActions :
       \E selectionStart, selectionEnd \in 0..Len(value) :
         /\ selectionStart <= selectionEnd
         /\ call = [fn |-> "toolbar", stage |-> "input", action |-> action,
                    value |-> value, selectionStart |-> selectionStart,
                    selectionEnd |-> selectionEnd,
                    result |-> NoResult, again |-> NoResult]

\* callback({value, selectionStart, selectionEnd}) of the action's transform
ApplyToolbar ==
  /\ call.fn = "toolbar" /\ call.stage = "input"
  /\ call' = [call EXCEPT !.stage = "applied",
                          !.result = ToolbarCallback(call.action, call.value,
                                                     call.selectionStart, call.selectionEnd)]
  /\ UNCHANGED editorVars

\* the same button once more: the text area holds result.text and, after
\* setSelectionRange, result's selection
ApplyToolbarAgain ==
  /\ call.fn = "toolbar" /\ call.stage = "applied"
  /\ call' = [call EXCEPT !.stage = "again",
                          !.again = ToolbarCallback(call.action, call.result.text,
                                                    call.result.selectionStart,
                                                    call.result.selectionEnd)]
  /\ UNCHANGED editorVars

NextText ==
  \/ ApplyToolbar
  \/ ApplyToolbarAgain

SpecText == InitText /\ [][NextText]_vars

(***************************************************************************)
(* The preview's renderer: renderMarkdown as a function, its nine          *)
(* String.replace passes in their order.  SpecRender draws a clause's      *)
(* content and renders it as the preview does.                             *)
(***************************************************************************)
\* the longest content drawn over RenderAlphabet
MaxRenderLen == 4

RenderAlphabet == {"a", "*", "_", "\n"}
PlainAlphabet == {"a", " ", "#"}

RECURSIVE StringsOver(_, _)
StringsOver(alphabet, n) ==
  IF n = 0 THEN {""}
  ELSE {c \o t : c \in alphabet, t \in StringsOver(alphabet, n - 1)}

\* single-line texts without "*" or "_"
PlainTexts ==
  UNION {StringsOver(PlainAlphabet, n) : n \in 1..(MaxRenderLen - 1)} \cup {"bold"}

\* contents that every pass of the renderer has something to do with
RenderSamples ==
  {"## a", "### a", "@ a", "1. a", "12. a", "a\n\na", "##a", "1.a", "## ",
   "## a\n@ a\n\n**a** *a* __a__"}

RenderTexts ==
  UNION {StringsOver(RenderAlphabet, n) : n \in 0..MaxRenderLen}
    \cup {"**" \o x \o "**" : x \in PlainTexts}
    \cup RenderSamples

StartsWith(str, prefix) ==
  Len(str) >= Len(prefix) /\ SubSeq(str, 1, Len(prefix)) = prefix

Contains(str, part) ==
  \E i \in 1..(Len(str) - Len(part) + 1) : SubSeq(str, i, i + Len(part) - 1) = part

CountChar(str, c) == Cardinality({i \in 1..Len(str) : SubSeq(str, i, i) = c})

\* (.*?) in place of (.+?): a closing marker may follow the opening one at once
ClosingsAllowEmpty(str, marker, i) ==
  LET k == Len(marker)
  IN {j \in (i + k)..(Len(str) - k + 1) :
        /\ SubSeq(str, j, j + k - 1) = marker
        /\ ~ Contains(SubSeq(str, i + k, j - 1), "\n")}

\* where marker(.+?)marker, opened at i, can close: after at least one
\* character, none of them a line break
Closings(str, marker, i) ==
  LET k == Len(marker)
  IN {j \in (i + k + 1)..(Len(str) - k + 1) :
        /\ SubSeq(str, j, j + k - 1) = marker
        /\ ~ Contains(SubSeq(str, i + k, j - 1), "\n")}

\* str.replace(/marker(.+?)marker/g, open + '$1' + close): the leftmost
\* opening that can close, its nearest closing, then on from behind it
RECURSIVE ReplaceWrapped(_, _, _, _)
ReplaceWrapped(str, marker, open, close) ==
  LET k == Len(marker)
      opens == {i \in 1..(Len(str) - k + 1) :
                  SubSeq(str, i, i + k - 1) = marker /\ Closings(str, marker, i) # {}}
  IN IF opens = {} THEN str
     ELSE LET i == CHOOSE x \in opens : \A y \in opens : x <= y
              js == Closings(str, marker, i)
              j == CHOOSE x \in js : \A y \in js : x <= y
          IN SubSeq(str, 1, i - 1) \o open \o SubSeq(str, i + k, j - 1) \o close
               \o ReplaceWrapped(SubSeq(str, j + k, Len(str)), marker, open, close)

\* str.replace(/^prefix(.+)$/gm, open + '$1' + close)
ReplacePrefixedLines(str, prefix, open, close) ==
  LET lines == SplitLines(str)
  IN JoinLines([n \in 1..Len(lines) |->
       IF StartsWith(lines[n], prefix) /\ Len(lines[n]) > Len(prefix)
       THEN open \o SubSeq(lines[n], Len(prefix) + 1, Len(lines[n])) \o close
       ELSE lines[n]])

Digits == {"0", "1", "2", "3", "4", "5", "6", "7", "8", "9"}

\* str.replace(/^\d+\. (.+)$/gm, open + '$1' + close)
ReplaceNumberedLines(str, open, close) ==
  LET lines == SplitLines(str)
      DigitRun(line) ==
        LET other == {i \in 1..Len(line) : SubSeq(line, i, i) \notin Digits}
        IN IF other = {} THEN Len(line)
           ELSE (CHOOSE i \in other : \A j \in other : i <= j) - 1
  IN JoinLines([n \in 1..Len(lines) |->
       LET line == lines[n]
           d == DigitRun(line)
       IN IF d >= 1 /\ Len(line) > d + 2 /\ SubSeq(line, d + 1, d + 2) = ". "
          THEN open \o SubSeq(line, d + 3, Len(line)) \o close
          ELSE line])

\* str.replace(/\n\n/g, by)
RECURSIVE ReplaceBlankLines(_, _)
ReplaceBlankLines(str, by) ==
  LET at == {i \in 1..(Len(str) - 1) : SubSeq(str, i, i + 1) = "\n\n"}
  IN IF at = {} THEN str
     ELSE LET i == CHOOSE x \in at : \A y \in at : x <= y
          IN SubSeq(str, 1, i - 1) \o by
               \o ReplaceBlankLines(SubSeq(str, i + 2, Len(str)), by)

\* str.replace(/^(?!<[h|l])/gm, by)
OpenParagraphs(str, by) ==
  LET lines == SplitLines(str)
  IN JoinLines([n \in 1..Len(lines) |->
       IF Len(lines[n]) >= 2 /\ SubSeq(lines[n], 1, 1) = "<"
            /\ SubSeq(lines[n], 2, 2) \in {"h", "|", "l"}
       THEN lines[n]
       ELSE by \o lines[n]])

H2Open == "<h2 class=\"text-xl font-bold mt-6 mb-3 text-slate-900 dark:text-white\">"
H3Open == "<h3 class=\"text-lg font-semibold mt-4 mb-2 text-slate-800 dark:text-slate-100\">"
LiOpen == "<li class=\"ml-6\">"
POpen == "<p class=\"mb-3\">"

\* renderMarkdown with the italic pass ahead of the bold pass
RenderMarkdownItalicFirst(text) ==
  LET em == ReplaceWrapped(text, "*", "<em>", "</em>")
      strong == ReplaceWrapped(em, "**", "<strong>", "</strong>")
      u == ReplaceWrapped(strong, "__", "<u>", "</u>")
      h2 == ReplacePrefixedLines(u, "## ", H2Open, "</h2>")
      h3 == ReplacePrefixedLines(h2, "### ", H3Open, "</h3>")
      bullets == ReplacePrefixedLines(h3, BulletChar \o " ", LiOpen, "</li>")
      numbered == ReplaceNumberedLines(bullets, LiOpen, "</li>")
      paragraphs == ReplaceBlankLines(numbered, "</p>" \o POpen)
  IN OpenParagraphs(paragraphs, POpen)

RenderMarkdown(text) ==
  LET strong == ReplaceWrapped(text, "**", "<strong>", "</strong>")
      em == ReplaceWrapped(strong, "*", "<em>", "</em>")
      u == ReplaceWrapped(em, "__", "<u>", "</u>")
      h2 == ReplacePrefixedLines(u, "## ", H2Open, "</h2>")
      h3 == ReplacePrefixedLines(h2, "### ", H3Open, "</h3>")
      bullets == ReplacePrefixedLines(h3, BulletChar \o " ", LiOpen, "</li>")
      numbered == ReplaceNumberedLines(bullets, LiOpen, "</li>")
      paragraphs == ReplaceBlankLines(numbered, "</p>" \o POpen)
  IN OpenParagraphs(paragraphs, POpen)

InitRender ==
  /\ EditorConstructed
  /\ \E text \in RenderTexts :
       call = [fn |-> "renderMarkdown", stage |-> "input", text |-> text, html |-> ""]

\* dangerouslySetInnerHTML={{ __html: renderMarkdown(block.content) }}
Render ==
  /\ call.fn = "renderMarkdown" /\ call.stage = "input"
  /\ call' = [call EXCEPT !.stage = "rendered", !.html = RenderMarkdown(call.text)]
  /\ UNCHANGED editorVars

NextRender == Render

SpecRender == InitRender /\ [][NextRender]_vars


(***************************************************************************)
(* The claims.                                                             *)
(***************************************************************************)
\* C1: after a recorded edit (a toolbar action or a clause removal) that took
\* the draft from S0 to S1, undo sets the draft to S0, a following redo sets
\* it to S1, and a further undo sets it to S0 again.
C1_UndoRedoRoundTrip ==
  /\ rt.phase = 2 => draft = rt.s0
  /\ rt.phase = 3 => draft = rt.s1
  /\ rt.phase = 4 => draft = rt.s0

C1_Witness == rt.phase = 4 /\ rt.s0 # rt.s1 /\ lastOp = "undo"

EditOps == {"add", "addCommon", "duplicate", "remove", "move",
            "typeTitle", "typeContent", "toggleRequired", "toolbar"}

\* C2: after every edit other than undo and redo (add, add common clause,
\* duplicate, remove, move, title / content / required update, toolbar action)
\* redoStack is empty, so a redo that follows a new edit leaves the draft alone.
C2_EditsClearRedo ==
  [][ /\ lastOp' \in EditOps => redoStack' = << >>
      /\ (lastOp \in EditOps /\ lastOp' = "redo") => draft' = draft ]_vars

ReplaceOps == {"switchTemplate", "loadTemplates", "newTemplate"}

\* C3: whenever the active draft is replaced (template switch, reload, new
\* template) undoStack and redoStack are both emptied.
C3_ReplaceResetsHistory ==
  [][ lastOp' \in ReplaceOps => (undoStack' = << >> /\ redoStack' = << >>) ]_vars

\* C4: undo with an empty undoStack changes nothing; otherwise the top of
\* undoStack is removed and becomes the draft, the draft as it was goes to the
\* front of redoStack, and the other entries of both stacks keep their order.
C4_Undo ==
  [][ lastOp' = "undo" =>
        IF Len(undoStack) = 0
        THEN draft' = draft /\ undoStack' = undoStack /\ redoStack' = redoStack
        ELSE /\ draft' = undoStack[Len(undoStack)]
             /\ Len(undoStack') = Len(undoStack) - 1
             /\ \A k \in 1..Len(undoStack') : undoStack'[k] = undoStack[k]
             /\ Len(redoStack') = Len(redoStack) + 1
             /\ redoStack'[1] = draft
             /\ \A k \in 1..Len(redoStack) : redoStack'[k + 1] = redoStack[k] ]_vars

C4_Witness == lastOp = "undo" /\ Len(redoStack) >= 2

\* C5: redo with an empty redoStack changes nothing; otherwise the front of
\* redoStack is removed and becomes the draft, the draft as it was becomes the
\* new top of undoStack, and the other entries of both stacks keep their order.
C5_Redo ==
  [][ lastOp' = "redo" =>
        IF Len(redoStack) = 0
        THEN draft' = draft /\ undoStack' = undoStack /\ redoStack' = redoStack
        ELSE /\ draft' = redoStack[1]
             /\ Len(redoStack') = Len(redoStack) - 1
             /\ \A k \in 1..Len(redoStack') : redoStack'[k] = redoStack[k + 1]
             /\ Len(undoStack') = Len(undoStack) + 1
             /\ undoStack'[Len(undoStack')] = draft
             /\ \A k \in 1..Len(undoStack) : undoStack'[k] = undoStack[k] ]_vars

C5_Witness == lastOp = "redo" /\ Len(undoStack) >= 2 /\ Len(redoStack) = 0

\* the step records history once, before its mutation
RecordsOnce ==
  /\ Len(undoStack') = Len(undoStack) + 1
  /\ \A k \in 1..Len(undoStack) : undoStack'[k] = undoStack[k]
  /\ undoStack'[Len(undoStack')] = draft
  /\ redoStack' = << >>

\* C6 as stated: each toolbar markup action and each clause removal grows
\* undoStack by exactly one entry, the draft as it was just before the action,
\* and clears redoStack.
C6_EveryToolbarActionRecords ==
  [][ lastOp' \in {"toolbar", "remove"} => RecordsOnce ]_vars

\* C6 as amended: each toolbar markup action on a draft that holds a clause,
\* and each clause removal, grows undoStack by exactly one entry, the draft as
\* it was just before the action, and clears redoStack.
C6_RecordedEditRecordsOnce ==
  [][ ((lastOp' = "toolbar" /\ Len(draft) > 0) \/ lastOp' = "remove") => RecordsOnce ]_vars

C6_Witness ==
  /\ lastOp = "toolbar"
  /\ Len(undoStack) = 2
  /\ draft # undoStack[2]

\* C7: typing into a clause's title or content, and toggling required, leave
\* undoStack as it was.
C7_FieldEditsKeepUndoStack ==
  [][ lastOp' \in {"typeTitle", "typeContent", "toggleRequired"} =>
        undoStack' = undoStack ]_vars

C7_Witness ==
  /\ lastOp = "typeContent"
  /\ Len(undoStack) = 1
  /\ draft # undoStack[1]

\* every clause id the template library holds
TemplateIds(tmpls) == UNION {Ids(tmpls[i].sections) : i \in 1..Len(tmpls)}

\* C8: clause ids are unique within the draft in every reachable state, and a
\* clause that add, add common clause or duplicate appends gets an id that no
\* clause had before, removed ones included.
C8_IdsUniqueAndFresh ==
  [][ /\ Cardinality(Ids(draft')) = Len(draft')
      /\ lastOp' \in {"add", "addCommon", "duplicate"} =>
           /\ Len(draft') = Len(draft) + 1
           /\ draft'[Len(draft')].id \notin usedIds \cup TemplateIds(templates) ]_vars

C8_Witness ==
  /\ lastOp \in {"add", "addCommon", "duplicate"}
  /\ Len(undoStack) = 1
  /\ Ids(undoStack[1]) \ Ids(draft) # {}
  /\ Len(draft) >= 2

\* C9: moving the first clause up or the last clause down leaves the draft
\* unchanged; otherwise the clause and its neighbour in that direction exchange
\* positions and every other clause keeps its index and content.
C9_MoveIsNeighbourSwap ==
  call.fn = "moveBlock" /\ call.stage = "moved" =>
    LET n == Len(call.prev)
        i == call.index + 1
        j == IF call.direction = "up" THEN i - 1 ELSE i + 1
    IN IF (call.direction = "up" /\ i = 1) \/ (call.direction = "down" /\ i = n)
       THEN call.result = call.prev
       ELSE /\ Len(call.result) = n
            /\ call.result[i] = call.prev[j]
            /\ call.result[j] = call.prev[i]
            /\ \A k \in (1..n) \ {i, j} : call.result[k] = call.prev[k]

C9_Witness ==
  /\ call.fn = "moveBlock" /\ call.stage = "moved"
  /\ Len(call.prev) = 5 /\ call.index = 2 /\ call.direction = "up"
  /\ call.result # call.prev

\* C10: for a clause that is not first, moving it up and then moving the same
\* clause down restores the original clause order exactly.
C10_MoveUpThenDownRestores ==
  call.fn = "moveBlock" /\ call.stage = "movedBack" => call.back = call.prev

C10_Witness ==
  /\ call.fn = "moveBlock" /\ call.stage = "movedBack"
  /\ Len(call.prev) = 5 /\ call.index = 2
  /\ call.result # call.prev

\* the last handler SpecStore ran
StoreRan(op) == call.fn = "store" /\ Len(call.ops) > 0 /\ StoreLastOp.op = op

\* the position in d of the clause with this id
PositionOf(d, id) == CHOOSE i \in 1..Len(d) : d[i].id = id

\* C11: duplicating a clause appends one new clause at the end of the draft,
\* titled as the original followed by " Copy", with the original's required
\* flag and content and an id no clause of the draft has; the original and
\* every other clause keep their fields and positions.
C11_DuplicateAppendsCopy ==
  StoreRan("duplicate") =>
    LET before == StoreBefore.draft
        after == StoreNow.draft
        n == Len(before)
        i == PositionOf(before, StoreLastOp.id)
    IN /\ Len(after) = n + 1
       /\ after[n + 1].title = before[i].title \o " Copy"
       /\ after[n + 1].required = before[i].required
       /\ after[n + 1].content = before[i].content
       /\ after[n + 1].id \notin Ids(before)
       /\ \A k \in 1..n : after[k] = before[k]

C11_Witness ==
  /\ StoreRan("duplicate")
  /\ Len(StoreBefore.draft) = 2
  /\ StoreLastOp.id = StoreBefore.draft[1].id
  /\ StoreNow.draft[3].title = "Scope Copy"

\* C12: adding a clause appends exactly one clause at the end of the draft,
\* with an id no clause of the draft has, the title "New Section", not
\* required and with empty content, and leaves the existing clauses as they
\* were; from an empty draft, adding twice gives two clauses with distinct ids
\* in insertion order, and removing the first then leaves exactly the second.
C12_AddAppendsNewSection ==
  /\ StoreRan("add") =>
       LET before == StoreBefore.draft
           after == StoreNow.draft
           n == Len(before)
       IN /\ Len(after) = n + 1
          /\ after[n + 1].title = "New Section"
          /\ after[n + 1].required = FALSE
          /\ after[n + 1].content = ""
          /\ after[n + 1].id \notin Ids(before)
          /\ \A k \in 1..n : after[k] = before[k]
  /\ ( /\ call.fn = "store" /\ Len(call.ops) = 3
       /\ call.trail[1].draft = << >>
       /\ call.ops[1].op = "add" /\ call.ops[2].op = "add" /\ call.ops[3].op = "remove"
       /\ call.ops[3].id = call.trail[2].draft[1].id ) =>
       LET one == call.trail[2].draft
           two == call.trail[3].draft
       IN /\ Len(one) = 1 /\ Len(two) = 2
          /\ two[1] = one[1]
          /\ two[1].id # two[2].id
          /\ StoreNow.draft = << two[2] >>

C12_Witness ==
  /\ call.fn = "store" /\ Len(call.ops) = 3
  /\ call.trail[1].draft = << >>
  /\ call.ops[1].op = "add" /\ call.ops[2].op = "add" /\ call.ops[3].op = "remove"
  /\ call.ops[3].id = call.trail[2].draft[1].id
  /\ Len(StoreNow.draft) = 1

\* C13: removing a clause whose id is in the draft gives the previous draft
\* with that one clause deleted: the clauses before it keep their positions,
\* the clauses after it move up by one, and none of them is changed.
C13_RemoveDeletesThatClause ==
  (StoreRan("remove") /\ StoreLastOp.id \in Ids(StoreBefore.draft)) =>
    LET before == StoreBefore.draft
        after == StoreNow.draft
        n == Len(before)
        i == PositionOf(before, StoreLastOp.id)
    IN /\ Len(after) = n - 1
       /\ \A k \in 1..(i - 1) : after[k] = before[k]
       /\ \A k \in (i + 1)..n : after[k - 1] = before[k]

C13_Witness ==
  /\ StoreRan("remove")
  /\ Len(StoreBefore.draft) = 3
  /\ StoreLastOp.id = StoreBefore.draft[2].id
  /\ Len(StoreNow.draft) = 2

\* C14: removing with an id that no clause of the draft has changes nothing:
\* the draft, undoStack and redoStack are as they were.
C14_RemoveMissingIsNoOp ==
  (StoreRan("remove") /\ StoreLastOp.id \notin Ids(StoreBefore.draft)) =>
    /\ StoreNow.draft = StoreBefore.draft
    /\ StoreNow.undoStack = StoreBefore.undoStack
    /\ StoreNow.redoStack = StoreBefore.redoStack

\* C15: updating the title, content or required flag of a clause sets exactly
\* that field of the clause with that id; its other fields, its position,
\* every other clause and the order of the ids are as they were; with an id no
\* clause has, the draft is as it was.
C15_UpdateSetsOneField ==
  StoreRan("update") =>
    LET before == StoreBefore.draft
        after == StoreNow.draft
        op == StoreLastOp
    IN IF op.id \notin Ids(before) THEN after = before
       ELSE LET i == PositionOf(before, op.id)
            IN /\ Len(after) = Len(before)
               /\ \A k \in 1..Len(before) : after[k].id = before[k].id
               /\ \A k \in (1..Len(before)) \ {i} : after[k] = before[k]
               /\ after[i].title = IF op.field = "title" THEN op.value ELSE before[i].title
               /\ after[i].content = IF op.field = "content" THEN op.value ELSE before[i].content
               /\ after[i].required = IF op.field = "required" THEN op.value ELSE before[i].required

C15_Witness ==
  /\ StoreRan("update")
  /\ StoreLastOp.field = "content"
  /\ Len(StoreBefore.draft) = 2
  /\ StoreLastOp.id = StoreBefore.draft[2].id
  /\ StoreNow.draft # StoreBefore.draft
  /\ StoreNow.draft[1].content = "x"

\* the markers of the wrap actions
WrapMarkers == [bold |-> "**", italic |-> "*", underline |-> "__"]

\* the toolbar action has been applied to the drawn text area
Applied(actions) ==
  call.fn = "toolbar" /\ call.stage # "input" /\ call.action \in actions

\* the text before, inside and after the drawn selection
TextBefore == Slice(call.value, 0, call.selectionStart)
TextSelected == Slice(call.value, call.selectionStart, call.selectionEnd)
TextAfter == Slice(call.value, call.selectionEnd, Len(call.value))

\* the part of a result's text that its selection covers
SelectedOf(r) == Slice(r.text, r.selectionStart, r.selectionEnd)

\* C16: wrapping with marker m gives the text before the selection, m, the
\* selected text, m and the text after the selection; the new selection is the
\* old one shifted by len(m), so it covers exactly the text that was selected;
\* "Hello" fully selected with bold gives "**Hello**" with selection 2 to 7.
C16_WrapSurroundsSelection ==
  Applied(DOMAIN WrapMarkers) =>
    LET m == WrapMarkers[call.action]
        r == call.result
    IN /\ r.text = TextBefore \o m \o TextSelected \o m \o TextAfter
       /\ r.selectionStart = call.selectionStart + Len(m)
       /\ r.selectionEnd = call.selectionEnd + Len(m)
       /\ SelectedOf(r) = TextSelected
       /\ (call.action = "bold" /\ call.value = "Hello"
             /\ call.selectionStart = 0 /\ call.selectionEnd = 5) =>
            r = [text |-> "**Hello**", selectionStart |-> 2, selectionEnd |-> 7]

C16_Witness ==
  /\ Applied({"bold"})
  /\ call.value = "Hello" /\ call.selectionStart = 0 /\ call.selectionEnd = 5
  /\ call.result.text = "**Hello**"

\* C17: wrapping and then wrapping again with the same marker on the returned
\* selection never unwraps: the marker stands twice on each side of the text
\* that was selected, and the text is 4 * len(m) longer than at the start.
C17_WrapTwiceNeverUnwraps ==
  (Applied(DOMAIN WrapMarkers) /\ call.stage = "again") =>
    LET m == WrapMarkers[call.action]
        r == call.again
    IN /\ r.text = TextBefore \o m \o m \o TextSelected \o m \o m \o TextAfter
       /\ Len(r.text) = Len(call.value) + 4 * Len(m)
       /\ SelectedOf(r) = TextSelected

C17_Witness ==
  /\ Applied({"underline"}) /\ call.stage = "again"
  /\ call.value = "a a" /\ call.selectionStart = 2 /\ call.selectionEnd = 3
  /\ call.again.text = "a ____a____"

\* the line is empty or holds white space only
BlankLine(line) == \A i \in 1..Len(line) : SubSeq(line, i, i) \in {" ", "\t"}

\* how many line breaks the text holds
LineBreaks(text) == Cardinality({i \in 1..Len(text) : SubSeq(text, i, i) = "\n"})

\* the result replaces the selection by a block that its selection spans, and
\* keeps the text before and after the selection
ReplacesSelection(r) ==
  /\ r.selectionStart = call.selectionStart
  /\ r.selectionStart <= r.selectionEnd /\ r.selectionEnd <= Len(r.text)
  /\ Slice(r.text, 0, r.selectionStart) = TextBefore
  /\ Slice(r.text, r.selectionEnd, Len(r.text)) = TextAfter

\* C18: the bulleted list splits the selected text on line breaks, puts
\* "Clause text" in place of every empty or white-space-only line, keeps every
\* other line, prefixes each line with the bullet and a blank, joins the lines
\* with line breaks and puts them in place of the selection; the text outside
\* the selection is unchanged and the new selection spans exactly the inserted
\* block; an empty selection gives the bullet, a blank and "Clause text".
C18_BulletedList ==
  Applied({"bullet"}) =>
    LET r == call.result
        lines == SplitLines(TextSelected)
        block == SplitLines(SelectedOf(r))
    IN /\ ReplacesSelection(r)
       /\ Len(lines) = LineBreaks(TextSelected) + 1
       /\ Len(block) = Len(lines)
       /\ \A k \in 1..Len(lines) :
            block[k] = BulletChar \o " " \o
                       (IF BlankLine(lines[k]) THEN "Clause text" ELSE lines[k])
       /\ call.selectionStart = call.selectionEnd =>
            SelectedOf(r) = BulletChar \o " Clause text"

C18_Witness ==
  /\ Applied({"bullet"})
  /\ call.value = "a\n " /\ call.selectionStart = 0 /\ call.selectionEnd = 3
  /\ call.result.text = "@ a\n@ Clause text"

\* C19: the numbered list splits and fills lines as the bulleted list does and
\* prefixes line i, counted from 1 over every line, with "i. "; the new
\* selection spans exactly the inserted block; "a\nb" fully selected gives
\* "1. a\n2. b".
C19_NumberedList ==
  Applied({"numbered"}) =>
    LET r == call.result
        lines == SplitLines(TextSelected)
        block == SplitLines(SelectedOf(r))
    IN /\ ReplacesSelection(r)
       /\ Len(block) = Len(lines)
       /\ \A k \in 1..Len(lines) :
            block[k] = ToString(k) \o ". " \o
                       (IF BlankLine(lines[k]) THEN "Clause text" ELSE lines[k])
       /\ (call.value = "a\nb" /\ call.selectionStart = 0 /\ call.selectionEnd = 3) =>
            r.text = "1. a\n2. b"

C19_Witness ==
  /\ Applied({"numbered"})
  /\ call.value = "a\n\n" /\ call.selectionStart = 0 /\ call.selectionEnd = 3
  /\ call.result.text = "1. a\n2. Clause text\n3. Clause text"

\* C20: a heading of level 2 or 3 puts "## " or "### " and the selected text,
\* or "Heading" when nothing is selected, in place of the selection; the text
\* outside the selection is unchanged, and the new selection starts where the
\* old one did and spans exactly the prefix and the text.
C20_Heading ==
  Applied({"h2", "h3"}) =>
    LET r == call.result
        prefix == IF call.action = "h2" THEN "## " ELSE "### "
        heading == IF call.selectionStart = call.selectionEnd THEN "Heading"
                   ELSE TextSelected
    IN /\ r.text = TextBefore \o prefix \o heading \o TextAfter
       /\ r.selectionStart = call.selectionStart
       /\ r.selectionEnd = call.selectionStart + Len(prefix) + Len(heading)
       /\ SelectedOf(r) = prefix \o heading

C20_Witness ==
  /\ Applied({"h3"})
  /\ call.value = "a a" /\ call.selectionStart = 1 /\ call.selectionEnd = 1
  /\ call.result.text = "a### Heading a"
  /\ call.result.selectionEnd = 12

\* the state InitFocused starts from, as Spec reaches it
FocusedAfterLoad ==
  /\ lastOp = "focus" /\ steps = 1
  /\ activeTemplateId = PersistedTemplates[1].id
  /\ draft = PersistedTemplates[1].sections
  /\ activeClauseId \in Ids(draft)
  /\ templates = PersistedTemplates /\ db = PersistedTemplates
  /\ templateMeta = MetaOf(PersistedTemplates[1])
  /\ ~loading /\ ~saving /\ ~previewMode /\ error = Null /\ success = Null
  /\ saveCall = NoSave /\ undoStack = << >> /\ redoStack = << >>
  /\ nextId = 0 /\ usedIds = Ids(draft) /\ rt = NoRun

\* the texts a toolbar action may leave in a text area that holds value
ToolbarTexts(value) ==
  {ToolbarCallback(action, value, sel[1], sel[2]).text :
     action \in ToolbarActions, sel \in Selections(value)}

\* C21: in edit mode with a non-empty draft, a toolbar action is applied to the
\* content of the clause whose text area has the focus (the clause
\* activeClauseId names), or to the first clause when no clause of the draft
\* has it; only that clause's content changes, no other clause and no other
\* field.
C21_ToolbarEditsFocusedOrFirst ==
  [][ (lastOp' = "toolbar" /\ Len(draft) > 0 /\ ~previewMode) =>
        LET target == IF activeClauseId \in Ids(draft) THEN activeClauseId
                      ELSE draft[1].id
            at == PositionOf(draft, target)
        IN /\ Len(draft') = Len(draft)
           /\ \A k \in (1..Len(draft)) \ {at} : draft'[k] = draft[k]
           /\ draft'[at].id = draft[at].id
           /\ draft'[at].title = draft[at].title
           /\ draft'[at].required = draft[at].required
           /\ draft'[at].content \in ToolbarTexts(draft[at].content) ]_vars

\* handleSave's effective visibility for the template being edited
EffectiveVisibility == IF memberRole = "org_admin" THEN templateMeta.visibility ELSE "branch"

\* the Save button has been clicked on a template that must not be saved
InvalidSaveAttempt ==
  /\ lastOp' \in {"save", "saveInvalid"}
  /\ \/ BlankLine(templateMeta.name)
     \/ EffectiveVisibility = "branch" /\ branchOfficeId = Null

\* C22: a save attempted with an empty or white-space-only template name, or
\* with effective visibility "branch" and no branch office, never calls the
\* external save: no call is in flight and nothing is persisted, an error
\* message is set, saving ends false, and the draft and both history stacks
\* are as they were.
C22_InvalidSaveIsRefused ==
  [][ InvalidSaveAttempt =>
        /\ saveCall' = NoSave /\ db' = db
        /\ error' # Null
        /\ saving' = FALSE
        /\ draft' = draft /\ undoStack' = undoStack /\ redoStack' = redoStack ]_vars

C22_Witness ==
  /\ lastOp = "saveInvalid"
  /\ templateMeta.name = " "
  /\ error = "Template name is required."
  /\ Len(draft) > 0

\* C23: when the external save call rejects, an error message is set, the
\* draft is exactly the clause sequence handed to the save when it was
\* invoked, the active template is the one it was then, and saving is false
\* again.
C23_RejectedSaveKeepsDraft ==
  [][ (lastOp' = "saveFailed" /\ saveCall # NoSave) =>
        /\ error' # Null
        /\ draft' = saveCall.payload.sections
        /\ activeTemplateId' = saveCall.activeTemplateId
        /\ saving' = FALSE ]_vars

\* an external save is in flight, or the reload it triggered is
SaveUnsettled == saveCall # NoSave \/ (loading /\ success # Null)

\* C24: between the start of an external save and its settlement, and that of
\* the reload it triggers, no user action changes the draft or the history;
\* and the draft the reload leaves equals the clause sequence handed to the
\* save.
C24_EditorWaitsForSave ==
  [][ /\ (SaveUnsettled /\ lastOp' \notin {"saveDone", "saveFailed", "loadTemplates",
                                           "loadTemplatesFailed"}) =>
           (draft' = draft /\ undoStack' = undoStack /\ redoStack' = redoStack)
      /\ (lastOp = "saveDone" /\ lastOp' = "loadTemplates") =>
           draft' = db[1].sections ]_vars

\* the template of the library with this id
TemplateOf(tmpls, id) == tmpls[CHOOSE i \in 1..Len(tmpls) : tmpls[i].id = id]

Rendered == call.fn = "renderMarkdown" /\ call.stage = "rendered"

\* C26: for every non-empty single-line text x without marker characters,
\* render("**" + x + "**") contains a strong element wrapping exactly x and
\* no literal "**" (no "*" at all); render("**bold**") wraps exactly "bold".
C26_BoldIsStrong ==
  Rendered =>
    \A x \in PlainTexts :
      call.text = "**" \o x \o "**" =>
        /\ Contains(call.html, "<strong>" \o x \o "</strong>")
        /\ CountChar(call.html, "*") = 0
        /\ ~ Contains(call.html, "<em>")

C26_Witness ==
  /\ Rendered
  /\ call.text = "**bold**"
  /\ call.html = POpen \o "<strong>bold</strong>"

\* the markers of a text, left to right: "**" before "*", and "__"
RECURSIVE MarkerTokens(_)
MarkerTokens(str) ==
  IF str = "" THEN << >>
  ELSE IF StartsWith(str, "**") THEN << "**" >> \o MarkerTokens(SubSeq(str, 3, Len(str)))
  ELSE IF StartsWith(str, "*") THEN << "*" >> \o MarkerTokens(SubSeq(str, 2, Len(str)))
  ELSE IF StartsWith(str, "__") THEN << "__" >> \o MarkerTokens(SubSeq(str, 3, Len(str)))
  ELSE MarkerTokens(SubSeq(str, 2, Len(str)))

\* every marker of the text is an opening one without a closing one of its
\* kind: the text has a marker, and no kind of marker twice
Unbalanced(str) ==
  LET tokens == MarkerTokens(str)
  IN /\ tokens # << >>
     /\ \A m, n \in 1..Len(tokens) : tokens[m] = tokens[n] => m = n

\* the text's markers stand in the html as they were, and the html has no
\* strong, em or u element
PassesThrough(text, html) ==
  /\ CountChar(html, "*") = CountChar(text, "*")
  /\ CountChar(html, "_") = CountChar(text, "_")
  /\ \A n \in 1..Len(MarkerTokens(text)) : Contains(html, MarkerTokens(text)[n])
  /\ ~ Contains(html, "<strong>")
  /\ ~ Contains(html, "<em>")
  /\ ~ Contains(html, "<u>")

\* C27 as stated: every text whose bold, italic and underline markers are
\* unbalanced is rendered with those markers as literal characters and with
\* no strong, em or u element.
C27_UnbalancedPassesThrough ==
  (Rendered /\ Unbalanced(call.text)) => PassesThrough(call.text, call.html)

\* C27: every text whose bold, italic and underline markers are unbalanced,
\* and in which no line holds both the lone "**" and the lone "*" (three "*"
\* characters), is rendered with those markers as literal characters and
\* with no strong, em or u element.
C27_UnbalancedApartPassesThrough ==
  (/\ Rendered
   /\ Unbalanced(call.text)
   /\ \A n \in 1..Len(SplitLines(call.text)) :
        CountChar(SplitLines(call.text)[n], "*") <= 2)
    => PassesThrough(call.text, call.html)

C27_Witness ==
  /\ Rendered
  /\ call.text = "*\n**"
  /\ call.html = POpen \o "*\n" \o POpen \o "**"

\* C28: a toolbar action that changes no clause (the draft is empty, the
\* editor is in preview mode, or the remembered clause is no longer in the
\* draft) leaves undoStack and redoStack as they were.
C28_IdleToolbarKeepsHistory ==
  [][ (lastOp' = "toolbar" /\ draft' = draft) =>
        (undoStack' = undoStack /\ redoStack' = redoStack) ]_vars

\* a transform's result r for the buffer value with the selection
\* [selectionStart, selectionEnd): r's selection is a range of r.text, and
\* r.text begins with the text before the selection and ends with the text
\* after it
ValidResult(value, selectionStart, selectionEnd, r) ==
  /\ 0 <= r.selectionStart
  /\ r.selectionStart <= r.selectionEnd
  /\ r.selectionEnd <= Len(r.text)
  /\ Len(r.text) >= Len(value) - (selectionEnd - selectionStart)
  /\ Slice(r.text, 0, selectionStart) = Slice(value, 0, selectionStart)
  /\ Slice(r.text, Len(r.text) - (Len(value) - selectionEnd), Len(r.text))
       = Slice(value, selectionEnd, Len(value))

\* C29: every transform (wrap, bulleted list, numbered list, heading), on
\* every buffer and selection with 0 <= selStart <= selEnd <= len(buffer),
\* returns a selection that is a valid range of the returned buffer, and a
\* buffer that keeps buffer[0..selStart) as its prefix and buffer[selEnd..]
\* as its suffix; so does its second application to the returned buffer and
\* selection.
C29_ResultIsValidRange ==
  /\ Applied(ToolbarActions) =>
       ValidResult(call.value, call.selectionStart, call.selectionEnd, call.result)
  /\ (call.fn = "toolbar" /\ call.stage = "again") =>
       ValidResult(call.result.text, call.result.selectionStart,
                   call.result.selectionEnd, call.again)

C29_Witness ==
  /\ Applied({"numbered"})
  /\ call.stage = "again"
  /\ call.value = "a a" /\ call.selectionStart = 2 /\ call.selectionEnd = 3
  /\ call.result = [text |-> "a 1. a", selectionStart |-> 2, selectionEnd |-> 6]
  /\ call.again.text = "a 1. 1. a"

\* C30: for a member, who is neither org admin nor branch admin, no step
\* changes undoStack or redoStack or persists anything, and the draft changes
\* only when templates are loaded or another template is selected.
C30_MemberCannotEdit ==
  [][ memberRole = "member" =>
        /\ undoStack' = undoStack /\ redoStack' = redoStack
        /\ db' = db /\ saveCall' = NoSave
        /\ draft' # draft => lastOp' \in {"loadTemplates", "switchTemplate"} ]_vars

C30_Witness ==
  /\ memberRole = "member"
  /\ steps = 2
  /\ lastOp = "togglePreview"
  /\ activeTemplateId = "t2"
  /\ draft = PersistedTemplates[2].sections


====
